---------------------------- MODULE Spec2Model ----------------------------
(***************************************************************************)
(* A model of the Crawl4AI retrieval engine of job-search-assistant:       *)
(* ProxyRotator and IndeedCrawl4AIScraper.search with the helpers it calls *)
(* (_should_rotate_browser, _rotate_browser, _smart_delay, __aenter__),    *)
(* all of src/src/scrapers/indeed_crawl4ai.py.                             *)
(*                                                                         *)
(* One scraper object runs one call of search.  search is a coroutine: it  *)
(* is cut into steps at its suspension points (the awaits on the crawler   *)
(* and on asyncio.sleep), and pc names the point it is suspended at.  The  *)
(* site is the environment: every response of crawler.arun is chosen       *)
(* nondeterministically among the outcomes the code distinguishes.         *)
(* Sleeps change no state and are not modelled beyond being steps.         *)
(***************************************************************************)
EXTENDS Integers, Sequences, FiniteSets, TLC

(***************************************************************************)
(* Program constants.                                                      *)
(***************************************************************************)
max_retries == 3
max_consecutive_failures == 3
max_failures == 3
JobsPerPage == 15
MaxPagesLimit == 10
DetectionRotateThreshold == 2
DefaultMaxPagesPerSession == 5
DefaultRotateProxyEvery == 2

(***************************************************************************)
(* Bounds of the model.                                                    *)
(***************************************************************************)
\* the largest number of configured proxies
MaxProxies == 2
\* the per-page attempt and escalation counters (history) stop counting here
AttemptCap == 4
\* a challenge is served to a proxy only while its failure count is below this
FailCap == 4
\* the challenges the site's script serves before it serves the page
ScriptChallenges == 2
\* the crawl tasks that share one ProxyRotator
NumTasks == 2
\* the most items in one extracted content
MaxItems == 2

None == 0
Proxies(n) == 1..n

\* The configurations search is run under.  max_results 1, 16 and 46 give
\* max_pages 1, 2 and 4.  'hybrid' stands for extraction_mode = 'hybrid'
\* with an LLM strategy available; 'css' also covers 'hybrid' without one
\* and 'llm', whose control flow in search is that of 'css'.
MaxResultsChoices == {1, 16, 46}
ExtractionModes == {"css", "hybrid"}
MaxPagesPerSessionChoices == {2, DefaultMaxPagesPerSession}
\* The number of records extraction finds on a successfully fetched page:
\* none, or a full page of them.
RecordCounts == {0, JobsPerPage}

Min(a, b) == IF a < b THEN a ELSE b

VARIABLES
  cfg,                          \* self.config and the constructor's reading of it
  current_idx, failures,        \* ProxyRotator
  crawler, current_proxy, pages_since_proxy_rotation,
  cloudflare_detected_count, pages_scraped_in_session,
  pc, rot_ret,                  \* where search is suspended; _rotate_browser's caller
  jobs, page_num, consecutive_failures,
  retry_count, page_success, cloudflare_detected_this_page,
  result,                       \* what search returned
  site,                         \* the site: the environment of the run
  hist,                         \* history: what happened, read by no action's guard
  tasks,                        \* crawl tasks that share the ProxyRotator
  indeed,                       \* the runs of IndeedScraper.search
  parse,                        \* extracted content and what is parsed from it
  delay,                        \* the calls of _smart_delay and what they slept
  dedup                         \* a job list and what deduplicate_jobs kept

rotator_vars == <<current_idx, failures>>
scraper_vars == <<crawler, current_proxy, pages_since_proxy_rotation,
                  cloudflare_detected_count, pages_scraped_in_session>>
search_vars == <<pc, rot_ret, jobs, page_num, consecutive_failures,
                 retry_count, page_success, cloudflare_detected_this_page, result>>
\* the state of the parts that are run on their own
side_vars == <<tasks, indeed, parse, delay, dedup>>
vars == <<cfg, rotator_vars, scraper_vars, search_vars, site, hist, side_vars>>

(***************************************************************************)
(* ProxyRotator.  The failures dict is a function on the configured        *)
(* proxies; an absent key reads as 0 everywhere in the code                *)
(* (failures.get(proxy, 0)), so absent and 0 are one value here.           *)
(***************************************************************************)
NoFailures == [p \in Proxies(MaxProxies) |-> 0]

\* the k-th proxy get_next_proxy looks at, k = 0, 1, ...
ProbeAt(n, idx, k) == ((idx + k) % n) + 1

Healthy(fl, p) == fl[p] < max_failures

\* mutant: the health check is left out
get_next_proxy_NoSkip(n, idx, fl) ==
  IF n = 0 THEN [proxy |-> None, idx |-> idx, failures |-> fl]
  ELSE [proxy |-> ProbeAt(n, idx, 0), idx |-> (idx + 1) % n, failures |-> fl]

\* mutant: with every proxy unhealthy the counters are kept
get_next_proxy_NoClear(n, idx, fl) ==
  IF n = 0 THEN [proxy |-> None, idx |-> idx, failures |-> fl]
  ELSE LET good == {k \in 0..(n - 1) : Healthy(fl, ProbeAt(n, idx, k))}
       IN IF good # {}
          THEN LET k == CHOOSE j \in good : \A i \in good : j <= i
               IN [proxy |-> ProbeAt(n, idx, k),
                   idx |-> (idx + k + 1) % n,
                   failures |-> fl]
          ELSE [proxy |-> 1, idx |-> idx, failures |-> fl]

\* get_next_proxy: [proxy, idx, failures] after the call
get_next_proxy(n, idx, fl) ==
  IF n = 0 THEN [proxy |-> None, idx |-> idx, failures |-> fl]
  ELSE LET good == {k \in 0..(n - 1) : Healthy(fl, ProbeAt(n, idx, k))}
       IN IF good # {}
          THEN LET k == CHOOSE j \in good : \A i \in good : j <= i
               IN [proxy |-> ProbeAt(n, idx, k),
                   idx |-> (idx + k + 1) % n,
                   failures |-> fl]
          ELSE [proxy |-> 1, idx |-> idx, failures |-> NoFailures]

\* mutant: the failure is not recorded
mark_failure_Skip(fl, p) == fl

mark_failure(fl, p) ==
  IF p # None THEN [fl EXCEPT ![p] = @ + 1] ELSE fl

mark_success(fl, p) ==
  IF p # None THEN [fl EXCEPT ![p] = 0] ELSE fl

(***************************************************************************)
(* The job list.  A page's records are one entry [page, n]: n records      *)
(* extracted from page `page`.                                             *)
(***************************************************************************)
RECURSIVE Len_jobs(_)
Len_jobs(js) == IF js = <<>> THEN 0 ELSE Head(js).n + Len_jobs(Tail(js))

\* mutant: the list is returned whole
Truncate_Whole(js, m) == js

\* js[:m]
RECURSIVE Truncate(_, _)
Truncate(js, m) ==
  IF js = <<>> \/ m <= 0 THEN <<>>
  ELSE IF Head(js).n <= m
       THEN <<Head(js)>> \o Truncate(Tail(js), m - Head(js).n)
       ELSE <<[page |-> Head(js).page, n |-> m]>>

max_pages_of(max_results) ==
  Min((max_results \div JobsPerPage) + 1, MaxPagesLimit)

max_pages == max_pages_of(cfg.max_results)

(***************************************************************************)
(* The parts run on their own, before they start.                          *)
(***************************************************************************)
NoTasks == <<>>
NoRuns == <<>>
NoParse == <<>>
NoDelay == <<>>
NoDedup == <<>>

(***************************************************************************)
(* Init: the scraper as __init__ leaves it.                                *)
(***************************************************************************)
Configs ==
  [headless : BOOLEAN,
   extraction_mode : ExtractionModes,
   max_results : MaxResultsChoices,
   nproxies : 0..MaxProxies,
   max_pages_per_session : MaxPagesPerSessionChoices,
   rotate_proxy_every : {DefaultRotateProxyEvery}]

(***************************************************************************)
(* The site.  It answers every fetch as it likes, except on one page it    *)
(* may single out (script_page, -1 for none): the first ScriptChallenges   *)
(* fetches of that page's url are answered with a challenge page and the   *)
(* next one with a page of records.  served counts the fetches of that url *)
(* answered so far, up to ScriptChallenges + 1.                            *)
(***************************************************************************)
Sites(c) ==
  [script_page : -1..(max_pages_of(c.max_results) - 1), served : {0}]

\* The history of the page the retry loop last worked on: the passes of the
\* retry loop that fetched its url (attempts), the second fetches of hybrid
\* mode (refetches), the fetches that escalated, whether the page was given
\* up, and of the latest answered fetch the session and the answer.
NoPageHist(p) ==
  [page |-> p, attempts |-> 0, refetches |-> 0, escalations |-> 0,
   abandoned |-> FALSE, last_sess |-> None, last_outcome |-> "none"]

\* The answers the history tells apart: a page with records, a page without
\* ("empty": also a failed second fetch of hybrid mode, which leaves the page
\* without records), a challenge, a failed fetch, and an error raised (by
\* crawler.arun, or by search for a navigation error or timeout).
Label(o, n) ==
  CASE o \in {"ok", "llm_ok"} -> IF n = 0 THEN "empty" ELSE "ok"
    [] o = "llm_failed" -> "empty"
    [] o = "challenge" -> "challenge"
    [] o = "failed" -> "failed"
    [] o \in {"nav_error", "exception", "llm_exception"} -> "error"

Escalating == {"challenge", "failed", "error"}

\* streak: the pages given up in a row; sessions: the browser sessions opened
\* so far; session_proxy: the proxy the open browser was configured with;
\* in_flight: the calls of crawler.arun that have not returned or raised;
\* detected: a challenge page was served in this run
NoHist ==
  [cur |-> NoPageHist(-1), streak |-> 0, sessions |-> 0,
   session_proxy |-> None, in_flight |-> 0, detected |-> FALSE]

InitScraper ==
  /\ cfg \in Configs
  /\ current_idx = 0
  /\ failures = NoFailures
  /\ crawler = None
  /\ current_proxy = None
  /\ pages_since_proxy_rotation = 0
  /\ cloudflare_detected_count = 0
  /\ pages_scraped_in_session = 0
  /\ pc = "new"
  /\ rot_ret = "none"
  /\ jobs = <<>>
  /\ page_num = 0
  /\ consecutive_failures = 0
  /\ retry_count = 0
  /\ page_success = FALSE
  /\ cloudflare_detected_this_page = FALSE
  /\ result = <<>>
  /\ site \in Sites(cfg)
  /\ hist = NoHist

Init ==
  /\ InitScraper
  /\ tasks = NoTasks
  /\ indeed = NoRuns
  /\ parse = NoParse
  /\ delay = NoDelay
  /\ dedup = NoDedup


(***************************************************************************)
(* Helpers of the actions.                                                 *)
(***************************************************************************)
Bump(k) == Min(k + 1, AttemptCap)

\* mutant: the session is rotated one page late
should_rotate_browser_Late ==
  \/ pages_scraped_in_session > cfg.max_pages_per_session
  \/ cloudflare_detected_count >= DetectionRotateThreshold

\* _should_rotate_browser
should_rotate_browser ==
  \/ pages_scraped_in_session >= cfg.max_pages_per_session
  \/ cloudflare_detected_count >= DetectionRotateThreshold

\* _get_browser_config's choice of the proxy the new browser is bound to:
\* proxy_url = self.current_proxy or self.proxy_rotator.get_next_proxy()
browser_proxy(cp) ==
  IF cp # None
  THEN [proxy |-> cp, idx |-> current_idx, failures |-> failures]
  ELSE get_next_proxy(cfg.nproxies, current_idx, failures)

\* return jobs[:max_results]
Return ==
  /\ pc' = "done"
  /\ result' = Truncate(jobs, cfg.max_results)

\* the page is given up: history only
Abandon(h) ==
  [h EXCEPT !.cur.abandoned = TRUE, !.streak = @ + 1]

\* mutant: the detection counter is left alone
smart_delay_NoCount(count, detected) == count

\* _smart_delay(page, cloudflare_detected): the detection counter after it
smart_delay(count, detected) == IF detected THEN count + 1 ELSE count

(***************************************************************************)
(* __aenter__: the first browser session.                                  *)
(***************************************************************************)
Enter ==
  /\ pc = "new"
  /\ LET b == browser_proxy(current_proxy)
     IN /\ current_idx' = b.idx
        /\ failures' = b.failures
        /\ crawler' = hist.sessions + 1
        /\ hist' = [hist EXCEPT !.sessions = @ + 1, !.session_proxy = b.proxy]
  /\ pc' = "entered"
  /\ UNCHANGED <<side_vars, cfg, site, current_proxy, pages_since_proxy_rotation,
                 cloudflare_detected_count, pages_scraped_in_session,
                 rot_ret, jobs, page_num, consecutive_failures, retry_count,
                 page_success, cloudflare_detected_this_page, result>>

(***************************************************************************)
(* search, up to its outer loop.                                           *)
(***************************************************************************)
SearchBegin ==
  /\ pc = "entered"
  /\ jobs' = <<>>
  /\ page_num' = 0
  /\ consecutive_failures' = 0
  /\ pc' = "loop"
  /\ UNCHANGED <<side_vars, cfg, site, rotator_vars, scraper_vars, rot_ret, retry_count,
                 page_success, cloudflare_detected_this_page, result, hist>>

\* the outer while's condition and the session check
LoopCheck ==
  /\ pc = "loop"
  /\ IF ~(Len_jobs(jobs) < cfg.max_results /\ page_num < max_pages)
     THEN /\ Return
          /\ UNCHANGED rot_ret
     ELSE IF should_rotate_browser
          THEN /\ pc' = "rot_close"
               /\ rot_ret' = "proxy_check"
               /\ UNCHANGED result
          ELSE /\ pc' = "proxy_check"
               /\ UNCHANGED <<rot_ret, result>>
  /\ UNCHANGED <<side_vars, cfg, site, rotator_vars, scraper_vars, jobs, page_num,
                 consecutive_failures, retry_count, page_success,
                 cloudflare_detected_this_page, hist>>

\* the proxy check of the outer loop
ProxyCheck ==
  /\ pc = "proxy_check"
  /\ IF pages_since_proxy_rotation >= cfg.rotate_proxy_every
     THEN LET g == get_next_proxy(cfg.nproxies, current_idx, failures)
          IN /\ current_proxy' = g.proxy
             /\ current_idx' = g.idx
             /\ failures' = g.failures
             /\ IF current_proxy # g.proxy
                THEN /\ pc' = "rot_close"
                     /\ rot_ret' = "proxy_done"
                     /\ UNCHANGED pages_since_proxy_rotation
                ELSE /\ pc' = "page_setup"
                     /\ pages_since_proxy_rotation' = 0
                     /\ UNCHANGED rot_ret
     ELSE /\ pc' = "page_setup"
          /\ UNCHANGED <<current_proxy, current_idx, failures,
                         pages_since_proxy_rotation, rot_ret>>
  /\ UNCHANGED <<side_vars, cfg, site, crawler, cloudflare_detected_count,
                 pages_scraped_in_session, jobs, page_num,
                 consecutive_failures, retry_count, page_success,
                 cloudflare_detected_this_page, result, hist>>

\* after the rotation the proxy check asked for
ProxyDone ==
  /\ pc = "proxy_done"
  /\ pages_since_proxy_rotation' = 0
  /\ pc' = "page_setup"
  /\ UNCHANGED <<side_vars, cfg, site, rotator_vars, crawler, current_proxy,
                 cloudflare_detected_count, pages_scraped_in_session,
                 rot_ret, jobs, page_num, consecutive_failures, retry_count,
                 page_success, cloudflare_detected_this_page, result, hist>>

\* the page's url and the retry loop's locals
PageSetup ==
  /\ pc = "page_setup"
  /\ retry_count' = 0
  /\ page_success' = FALSE
  /\ cloudflare_detected_this_page' = FALSE
  /\ pc' = "attempt"
  /\ hist' = IF hist.cur.page = page_num THEN hist
             ELSE [hist EXCEPT !.cur = NoPageHist(page_num)]
  /\ UNCHANGED <<side_vars, cfg, site, rotator_vars, scraper_vars, rot_ret, jobs, page_num,
                 consecutive_failures, result>>

(***************************************************************************)
(* _rotate_browser, in its three awaits.  Closing the old browser and      *)
(* opening the new one can raise; search has no handler around the call.   *)
(***************************************************************************)
\* mutant: the pause is taken with the old session still open
RotateClose_PauseFirst ==
  /\ pc = "rot_close"
  /\ \E raises \in BOOLEAN :
       IF raises
       THEN /\ pc' = "raised"
            /\ UNCHANGED <<rotator_vars, scraper_vars>>
       ELSE LET g == get_next_proxy(cfg.nproxies, current_idx, failures)
            IN /\ UNCHANGED crawler
               /\ pages_scraped_in_session' = 0
               /\ cloudflare_detected_count' = 0
               /\ current_proxy' = g.proxy
               /\ current_idx' = g.idx
               /\ failures' = g.failures
               /\ pages_since_proxy_rotation' = 0
               /\ pc' = "rot_pause"
  /\ UNCHANGED <<side_vars, cfg, site, rot_ret, jobs, page_num, consecutive_failures,
                 retry_count, page_success, cloudflare_detected_this_page,
                 result, hist>>

RotateClose ==
  /\ pc = "rot_close"
  /\ \E raises \in BOOLEAN :
       IF raises
       THEN /\ pc' = "raised"
            /\ UNCHANGED <<rotator_vars, scraper_vars>>
       ELSE LET g == get_next_proxy(cfg.nproxies, current_idx, failures)
            IN /\ crawler' = None
               /\ pages_scraped_in_session' = 0
               /\ cloudflare_detected_count' = 0
               /\ current_proxy' = g.proxy
               /\ current_idx' = g.idx
               /\ failures' = g.failures
               /\ pages_since_proxy_rotation' = 0
               /\ pc' = "rot_pause"
  /\ UNCHANGED <<side_vars, cfg, site, rot_ret, jobs, page_num, consecutive_failures,
                 retry_count, page_success, cloudflare_detected_this_page,
                 result, hist>>

RotatePause ==
  /\ pc = "rot_pause"
  /\ pc' = "rot_open"
  /\ UNCHANGED <<side_vars, cfg, site, rotator_vars, scraper_vars, rot_ret, jobs, page_num,
                 consecutive_failures, retry_count, page_success,
                 cloudflare_detected_this_page, result, hist>>

RotateOpen ==
  /\ pc = "rot_open"
  /\ \E raises \in BOOLEAN :
       IF raises
       THEN /\ pc' = "raised"
            /\ UNCHANGED <<rotator_vars, crawler, hist>>
       ELSE LET b == browser_proxy(current_proxy)
            IN /\ current_idx' = b.idx
               /\ failures' = b.failures
               /\ crawler' = hist.sessions + 1
               /\ hist' = [hist EXCEPT !.sessions = @ + 1,
                                       !.session_proxy = b.proxy]
               /\ pc' = rot_ret
  /\ UNCHANGED <<side_vars, cfg, site, current_proxy, pages_since_proxy_rotation,
                 cloudflare_detected_count, pages_scraped_in_session,
                 rot_ret, jobs, page_num, consecutive_failures, retry_count,
                 page_success, cloudflare_detected_this_page, result>>


(***************************************************************************)
(* The retry loop of one page.                                             *)
(***************************************************************************)
\* mutant: the fetch is issued and search goes on without awaiting it
Attempt_NoAwait ==
  /\ pc = "attempt"
  /\ pc' = "loop"
  /\ hist' = [hist EXCEPT !.cur.attempts = Bump(@), !.in_flight = @ + 1]
  /\ UNCHANGED <<side_vars, cfg, site, rotator_vars, scraper_vars, rot_ret,
                 jobs, page_num, consecutive_failures, retry_count,
                 page_success, cloudflare_detected_this_page, result>>

\* the inner while's condition, and the call of crawler.arun
Attempt ==
  /\ pc = "attempt"
  /\ IF retry_count < max_retries
     THEN /\ pc' = "inflight"
          /\ hist' = [hist EXCEPT !.cur.attempts = Bump(@),
                                  !.in_flight = @ + 1]
     ELSE /\ pc' = "loop"
          /\ hist' = Abandon(hist)
  /\ UNCHANGED <<side_vars, cfg, site, rotator_vars, scraper_vars, rot_ret, jobs, page_num,
                 consecutive_failures, retry_count, page_success,
                 cloudflare_detected_this_page, result>>

\* the except clause of the retry loop
HandleException ==
  /\ retry_count' = retry_count + 1
  /\ IF retry_count + 1 >= max_retries
     THEN /\ consecutive_failures' = consecutive_failures + 1
          /\ IF consecutive_failures + 1 >= max_consecutive_failures
             THEN Return
             ELSE pc' = "attempt" /\ UNCHANGED result
     ELSE /\ pc' = "attempt"
          /\ UNCHANGED <<consecutive_failures, result>>
  /\ UNCHANGED <<failures, cloudflare_detected_count,
                 pages_since_proxy_rotation, pages_scraped_in_session, jobs,
                 page_num, page_success, cloudflare_detected_this_page>>

\* mutant: a challenged page is skipped in headful configuration too
OnChallenge_Skip ==
  /\ cloudflare_detected_this_page' = TRUE
  /\ failures' = mark_failure(failures, current_proxy)
  /\ cloudflare_detected_count' =
       smart_delay(cloudflare_detected_count + 1, TRUE)
  /\ consecutive_failures' = consecutive_failures + 1
  /\ page_num' = page_num + 1
  /\ pc' = "loop"
  /\ UNCHANGED <<pages_since_proxy_rotation, pages_scraped_in_session, jobs,
                 retry_count, page_success, result>>

\* a challenge page was served
OnChallenge ==
  /\ cloudflare_detected_this_page' = TRUE
  /\ failures' = mark_failure(failures, current_proxy)
  /\ IF ~cfg.headless
     THEN /\ pc' = "attempt"
          /\ UNCHANGED <<cloudflare_detected_count, consecutive_failures,
                         page_num>>
     ELSE /\ cloudflare_detected_count' =
               smart_delay(cloudflare_detected_count + 1, TRUE)
          /\ consecutive_failures' = consecutive_failures + 1
          /\ page_num' = page_num + 1
          /\ pc' = "loop"
  /\ UNCHANGED <<pages_since_proxy_rotation, pages_scraped_in_session, jobs,
                 retry_count, page_success, result>>

\* result.success is false, and the error is no navigation error or timeout
OnFailed ==
  /\ consecutive_failures' = consecutive_failures + 1
  /\ IF consecutive_failures + 1 >= max_consecutive_failures
     THEN Return /\ UNCHANGED retry_count
     ELSE /\ retry_count' = retry_count + 1
          /\ pc' = "attempt"
          /\ UNCHANGED result
  /\ UNCHANGED <<failures, cloudflare_detected_count,
                 pages_since_proxy_rotation, pages_scraped_in_session, jobs,
                 page_num, page_success, cloudflare_detected_this_page>>

\* the page's n extracted records: empty ends the run, else they are kept
FinishPage(n) ==
  IF n = 0
  THEN /\ Return
       /\ UNCHANGED <<failures, cloudflare_detected_count,
                      pages_since_proxy_rotation, pages_scraped_in_session,
                      jobs, page_num>>
  ELSE /\ jobs' = Append(jobs, [page |-> page_num, n |-> n])
       /\ failures' = mark_success(failures, current_proxy)
       /\ pages_since_proxy_rotation' = pages_since_proxy_rotation + 1
       /\ pages_scraped_in_session' = pages_scraped_in_session + 1
       /\ cloudflare_detected_count' =
            smart_delay(cloudflare_detected_count, cloudflare_detected_this_page)
       /\ page_num' = page_num + 1
       /\ pc' = "loop"
       /\ UNCHANGED result

\* mutant: an empty page 0 is fetched once more before the run ends
OnSuccess_ConfirmEmpty(n) ==
  /\ consecutive_failures' = 0
  /\ page_success' = TRUE
  /\ IF n = 0 /\ page_num = 0 /\ ~page_success
     THEN /\ pc' = "attempt"
          /\ UNCHANGED <<failures, cloudflare_detected_count,
                         pages_since_proxy_rotation, pages_scraped_in_session,
                         jobs, page_num, result>>
     ELSE FinishPage(n)
  /\ UNCHANGED <<retry_count, cloudflare_detected_this_page>>

\* the fetch succeeded and the structural extraction found n records
OnSuccess(n) ==
  /\ consecutive_failures' = 0
  /\ page_success' = TRUE
  /\ IF cfg.extraction_mode = "hybrid" /\ n = 0
     THEN /\ pc' = "llm_inflight"
          /\ UNCHANGED <<failures, cloudflare_detected_count,
                         pages_since_proxy_rotation, pages_scraped_in_session,
                         jobs, page_num, result>>
     ELSE FinishPage(n)
  /\ UNCHANGED <<retry_count, cloudflare_detected_this_page>>

\* What the site can answer to a fetch of the page.
Outcomes == {"ok", "challenge", "failed", "nav_error", "exception"}

\* the answer the site's script fixes for the fetch in flight, if it fixes one
Scripted == page_num = site.script_page /\ site.served <= ScriptChallenges

SiteAllows(o) ==
  IF Scripted
  THEN IF site.served < ScriptChallenges THEN o = "challenge" ELSE o = "ok"
  ELSE TRUE

SiteRecords == IF Scripted THEN RecordCounts \ {0} ELSE RecordCounts

SiteServed ==
  IF Scripted THEN [site EXCEPT !.served = @ + 1] ELSE site

\* the site serves a challenge (the bound FailCap keeps the counter finite)
CanChallenge ==
  IF current_proxy = None THEN TRUE ELSE failures[current_proxy] < FailCap

\* history of one answered fetch
Answered(h, o, n, given_up) ==
  LET h1 == [h EXCEPT !.in_flight = @ - 1,
                      !.detected = @ \/ Label(o, n) = "challenge",
                      !.cur.last_sess = crawler,
                      !.cur.last_outcome = Label(o, n),
                      !.cur.escalations =
                         IF Label(o, n) \in Escalating THEN Bump(@) ELSE @]
  IN IF given_up THEN Abandon(h1) ELSE h1

\* crawler.arun returns or raises, and the rest of the loop body runs
Respond ==
  /\ pc = "inflight"
  /\ \E o \in Outcomes :
     \E n \in IF o = "ok" THEN SiteRecords ELSE {0} :
       /\ SiteAllows(o)
       /\ o = "challenge" => CanChallenge
       /\ CASE o = "challenge" -> OnChallenge
            [] o = "failed" -> OnFailed
            [] o \in {"nav_error", "exception"} -> HandleException
            [] o = "ok" -> OnSuccess(n)
       /\ hist' = LET h == Answered(hist, o, n,
                                    \/ o = "challenge" /\ cfg.headless
                                    \/ o # "ok" /\ pc' = "done")
                  IN IF pc' = "llm_inflight"
                     THEN [h EXCEPT !.cur.refetches = Bump(@), !.streak = 0,
                                    !.in_flight = @ + 1]
                     ELSE IF o = "ok"
                          THEN [h EXCEPT !.streak = 0]
                          ELSE h
  /\ site' = SiteServed
  /\ UNCHANGED <<side_vars, cfg, current_idx, crawler, current_proxy, rot_ret>>

\* What the site can answer to the second fetch of hybrid mode: the semantic
\* extraction's records, a failed fetch (the page stays empty) or an error.
LLMOutcomes == {"llm_ok", "llm_failed", "llm_exception"}

\* the second fetch of hybrid mode returns or raises
LLMRespond ==
  /\ pc = "llm_inflight"
  /\ \E o \in LLMOutcomes :
     \E n \in IF o = "llm_ok" THEN RecordCounts ELSE {0} :
       /\ IF o = "llm_exception"
          THEN HandleException
          ELSE /\ FinishPage(n)
               /\ UNCHANGED <<consecutive_failures, retry_count,
                              page_success, cloudflare_detected_this_page>>
       /\ hist' = Answered(hist, o, n,
                           o = "llm_exception" /\ pc' = "done")
  /\ UNCHANGED <<side_vars, cfg, current_idx, crawler, current_proxy, rot_ret, site>>

Next ==
  \/ Enter
  \/ SearchBegin
  \/ LoopCheck
  \/ ProxyCheck
  \/ ProxyDone
  \/ PageSetup
  \/ RotateClose
  \/ RotatePause
  \/ RotateOpen
  \/ Attempt
  \/ Respond
  \/ LLMRespond

Spec == Init /\ [][Next]_vars

\* search is a running coroutine: a step that can be taken is taken
FairSpec == Spec /\ WF_vars(Next)

TypeOK ==
  /\ cfg \in Configs
  /\ pc \in {"new", "entered", "loop", "proxy_check", "proxy_done",
             "page_setup", "rot_close", "rot_pause", "rot_open", "attempt",
             "inflight", "llm_inflight", "done", "raised"}
  /\ current_proxy \in 0..cfg.nproxies
  /\ page_num \in 0..max_pages
  /\ retry_count \in 0..max_retries

(***************************************************************************)
(* IndeedScraper.search of src/src/scrapers/indeed.py, the Playwright      *)
(* scraper, with _scrape_page as the site's answer to it.  Two runs of it  *)
(* are made side by side under one configuration, each against its own     *)
(* answers of the site; each keeps the answers it got (history).           *)
(***************************************************************************)
indeed_max_retries == 3

Runs == {1, 2}

\* What _scrape_page does: it returns the page's records ("ok"), or an empty
\* list for a page without job cards ("empty"), for status 403, for status
\* 429, for another status >= 400 and for a captcha page.  An exception
\* raised while the page is scraped is caught by its `except Exception` and
\* answered with an empty list too: a browser-closed or connection-closed
\* error ("closed_in_body") and any other error ("error_in_body").  What
\* leaves _scrape_page as an exception is raised by page.close() in its
\* finally: a browser-closed error ("browser_closed") or another error
\* ("error").
ScrapeOutcomes ==
  {"ok", "empty", "http_403", "http_429", "http_error", "captcha",
   "closed_in_body", "error_in_body", "browser_closed", "error"}

\* the answers on which _scrape_page returns []
ReturnsNoJobs ==
  {"empty", "http_403", "http_429", "http_error", "captcha",
   "closed_in_body", "error_in_body"}

NewRun ==
  [pc |-> "new", jobs |-> <<>>, page_num |-> 0, retry_count |-> 0,
   result |-> <<>>, answers |-> <<>>]

\* the configurations the two runs are made under: only max_results is read
IndeedConfigs ==
  {c \in Configs : /\ c.headless
                   /\ c.extraction_mode = "css"
                   /\ c.nproxies = 0
                   /\ c.max_pages_per_session = DefaultMaxPagesPerSession
                   /\ c.max_results < 3 * JobsPerPage}

IndeedInit ==
  /\ InitScraper
  /\ cfg \in IndeedConfigs
  /\ site.script_page = -1
  /\ delay = NoDelay
  /\ dedup = NoDedup
  /\ tasks = NoTasks
  /\ indeed = [r \in Runs |-> NewRun]
  /\ parse = NoParse

IndeedIdle ==
  UNCHANGED <<cfg, rotator_vars, scraper_vars, search_vars, site, hist,
                 delay, dedup,
              tasks, parse>>

\* search up to its loop
IndeedBegin(r) ==
  /\ indeed[r].pc = "new"
  /\ indeed' = [indeed EXCEPT ![r].pc = "loop", ![r].jobs = <<>>,
                              ![r].page_num = 0]
  /\ IndeedIdle

\* return jobs[:max_results]
IndeedReturn(run) ==
  [run EXCEPT !.pc = "done", !.result = Truncate(run.jobs, cfg.max_results)]

\* the outer while's condition
IndeedLoop(r) ==
  /\ indeed[r].pc = "loop"
  /\ indeed' =
       [indeed EXCEPT ![r] =
          IF Len_jobs(@.jobs) < cfg.max_results /\ @.page_num < max_pages
          THEN [@ EXCEPT !.pc = "retry", !.retry_count = 0]
          ELSE IndeedReturn(@)]
  /\ IndeedIdle

\* the retry loop's condition and the call of _scrape_page
IndeedScrape(r) ==
  /\ indeed[r].pc = "retry"
  /\ indeed' =
       [indeed EXCEPT ![r] =
          IF @.retry_count < indeed_max_retries
          THEN [@ EXCEPT !.pc = "scraping"]
          ELSE IndeedReturn(@)]
  /\ IndeedIdle

\* _scrape_page returned or raised: the rest of the outer loop's body
IndeedAnswered(run, o, n) ==
  LET a == [run EXCEPT !.answers = Append(@, o)]
  IN CASE o = "ok" ->
            [a EXCEPT !.jobs = Append(@, [page |-> run.page_num, n |-> n]),
                      !.page_num = @ + 1, !.pc = "loop"]
       [] o \in ReturnsNoJobs -> IndeedReturn(a)
       [] o = "browser_closed" ->
            IF run.retry_count + 1 < indeed_max_retries
            THEN [a EXCEPT !.retry_count = @ + 1, !.pc = "reinit"]
            ELSE [a EXCEPT !.retry_count = @ + 1, !.pc = "raised"]
       [] o = "error" -> [a EXCEPT !.pc = "raised"]

IndeedAnswer(r) ==
  /\ indeed[r].pc = "scraping"
  /\ \E o \in ScrapeOutcomes :
     \E n \in IF o = "ok" THEN RecordCounts \ {0} ELSE {0} :
       indeed' = [indeed EXCEPT ![r] = IndeedAnswered(@, o, n)]
  /\ IndeedIdle

\* the backoff, _close_browser and _init_browser, which can raise
IndeedReinit(r) ==
  /\ indeed[r].pc = "reinit"
  /\ \E raises \in BOOLEAN :
       indeed' = [indeed EXCEPT ![r].pc = IF raises THEN "raised" ELSE "retry"]
  /\ IndeedIdle

IndeedNext ==
  \E r \in Runs :
    \/ IndeedBegin(r)
    \/ IndeedLoop(r)
    \/ IndeedScrape(r)
    \/ IndeedAnswer(r)
    \/ IndeedReinit(r)

IndeedSpec == IndeedInit /\ [][IndeedNext]_vars

(***************************************************************************)
(* One ProxyRotator shared by crawl tasks.  The tasks run on one event     *)
(* loop; get_next_proxy, mark_failure and mark_success are plain methods   *)
(* without an await, so a call runs from entry to return before another    *)
(* task runs: a step is one call.  The calls come in any order, from any   *)
(* task, for any configured proxy.  tasks keeps the latest call (history): *)
(* who called what, the proxy passed or returned, whether the call cleared *)
(* the counters, and the proxy get_next_proxy returned the time before.    *)
(***************************************************************************)
Tasks == 1..NumTasks

NoCalls ==
  [last_call |-> "none", task |-> None, proxy |-> None, cleared |-> FALSE,
   returned |-> None]

\* only the proxy list is read
RotatorConfigs ==
  {c \in Configs : /\ c.headless
                   /\ c.extraction_mode = "css"
                   /\ c.nproxies >= 1
                   /\ c.max_pages_per_session = DefaultMaxPagesPerSession
                   /\ c.max_results < JobsPerPage}

RotatorInit ==
  /\ InitScraper
  /\ cfg \in RotatorConfigs
  /\ site.script_page = -1
  /\ delay = NoDelay
  /\ dedup = NoDedup
  /\ tasks = NoCalls
  /\ indeed = NoRuns
  /\ parse = NoParse

RotatorIdle ==
  UNCHANGED <<cfg, scraper_vars, search_vars, site, hist, indeed, parse,
              delay, dedup>>

AllUnhealthy == \A p \in Proxies(cfg.nproxies) : ~Healthy(failures, p)

GetNextProxy(t) ==
  /\ LET g == get_next_proxy(cfg.nproxies, current_idx, failures)
     IN /\ current_idx' = g.idx
        /\ failures' = g.failures
        /\ tasks' = [last_call |-> "get", task |-> t, proxy |-> g.proxy,
                     cleared |-> AllUnhealthy,
                     returned |-> IF tasks.last_call = "get"
                                  THEN tasks.proxy ELSE tasks.returned]
  /\ RotatorIdle

MarkFailure(t, p) ==
  /\ failures[p] < FailCap
  /\ failures' = mark_failure(failures, p)
  /\ tasks' = [tasks EXCEPT !.last_call = "fail", !.task = t, !.proxy = p,
                            !.cleared = FALSE,
                            !.returned = IF tasks.last_call = "get"
                                         THEN tasks.proxy ELSE @]
  /\ UNCHANGED current_idx
  /\ RotatorIdle

MarkSuccess(t, p) ==
  /\ failures' = mark_success(failures, p)
  /\ tasks' = [tasks EXCEPT !.last_call = "success", !.task = t, !.proxy = p,
                            !.cleared = FALSE,
                            !.returned = IF tasks.last_call = "get"
                                         THEN tasks.proxy ELSE @]
  /\ UNCHANGED current_idx
  /\ RotatorIdle

RotatorNext ==
  \E t \in Tasks :
    \/ GetNextProxy(t)
    \/ \E p \in Proxies(cfg.nproxies) : MarkFailure(t, p)
    \/ \E p \in Proxies(cfg.nproxies) : MarkSuccess(t, p)

RotatorSpec == RotatorInit /\ [][RotatorNext]_vars

(***************************************************************************)
(* _parse_salary.  A compensation text is read for what the code reads of  *)
(* it: the figures its regular expression finds, each with or without a K  *)
(* behind it, and the words after them, which hold the letter k or the     *)
(* word hour or neither.  An item holds such a text or none, and may hold  *)
(* the pre-parsed salary_min and salary_max of an LLM extraction.          *)
(***************************************************************************)
\* val < 1000 and val *= 1000
k_multiplier == 1000
\* val < 500
hourly_limit == 500
\* val *= 2080
annual_hours == 2080

SalaryValues == {25, 35, 80, 900, 50000, 70000}
SalaryFigures == [value : SalaryValues, k : BOOLEAN]
SalaryUnits == {"", "an hour", "a year", "a week"}
SalaryTexts ==
  [figures : UNION {[1..n -> SalaryFigures] : n \in 0..2}, unit : SalaryUnits]
NoSalaryText == [figures |-> <<>>, unit |-> ""]

\* the items _parse_salary is given: the pre-parsed values (None when
\* absent), and the text of 'salary' or 'salary_text' ('' when absent)
SalaryItems ==
  [salary_min : {None, 60000}, salary_max : {None, 40000, 80000},
   has_text : {TRUE}, text : SalaryTexts]
    \cup [salary_min : {None, 60000}, salary_max : {None, 40000, 80000},
          has_text : {FALSE}, text : {NoSalaryText}]

\* 'k' in salary_text.lower(): a K behind a figure, or a k in the words
contains_k(text) ==
  \/ \E i \in DOMAIN text.figures : text.figures[i].k
  \/ text.unit = "a week"

\* 'hour' in salary_text.lower()
contains_hour(text) == text.unit = "an hour"

\* the body of the loop over the numbers found: one figure's value
salary_value(text, fig) ==
  LET val == fig.value
      in_k == IF contains_k(text) /\ val < k_multiplier
              THEN val * k_multiplier ELSE val
  IN IF contains_hour(text) /\ in_k < hourly_limit
     THEN in_k * annual_hours ELSE in_k

NoSalary == [none |-> TRUE, min |-> 0, max |-> 0]

\* _parse_salary: (None, None) is NoSalary
parse_salary(item) ==
  IF item.salary_min # None
  THEN [none |-> FALSE, min |-> item.salary_min,
        max |-> IF item.salary_max # None THEN item.salary_max
                ELSE item.salary_min]
  ELSE IF ~item.has_text \/ item.text.figures = <<>> THEN NoSalary
  ELSE LET values == {salary_value(item.text, item.text.figures[i]) :
                        i \in DOMAIN item.text.figures}
       IN [none |-> FALSE,
           min |-> CHOOSE v \in values : \A w \in values : v <= w,
           max |-> CHOOSE v \in values : \A w \in values : v >= w]

SalaryInit ==
  /\ InitScraper
  /\ cfg \in RotatorConfigs
  /\ cfg.nproxies = 1
  /\ site.script_page = -1
  /\ delay = NoDelay
  /\ dedup = NoDedup
  /\ tasks = NoTasks
  /\ indeed = NoRuns
  /\ parse \in [item : SalaryItems, called : {FALSE}, salary : {NoSalary}]

ParseSalary ==
  /\ ~parse.called
  /\ parse' = [parse EXCEPT !.called = TRUE,
                            !.salary = parse_salary(parse.item)]
  /\ UNCHANGED <<cfg, rotator_vars, scraper_vars, search_vars, site, hist,
                 delay, dedup,
                 tasks, indeed>>

SalaryNext == ParseSalary

SalarySpec == SalaryInit /\ [][SalaryNext]_vars

(***************************************************************************)
(* _parse_posted_date.  Time is counted in hours since datetime.min; a     *)
(* datetime below it does not exist, and the subtraction that would give   *)
(* one raises OverflowError.  A date text is read for what the code reads  *)
(* of it: whether it is empty, what is left of it without 'posted',        *)
(* whether it holds 'today', the first number in it and the unit word.     *)
(***************************************************************************)
\* datetime.now() when the first call is made
FirstNow == 17758000
\* how many hours the clock advances
MaxTicks == 2

DateNumbers == {1, 3, 30, 800000}
DateUnits == {"hour", "day", "week", "month"}

\* '', 'Just posted', 'Today', 'Posted N units ago' and 'N units ago',
\* a text without a number ('Yesterday'), a number without a unit ('30+')
EmptyDateText == [kind |-> "empty", number |-> 0, unit |-> ""]
DateTexts ==
  [kind : {"ago"}, number : DateNumbers, unit : DateUnits]
    \cup [kind : {"empty", "just_posted", "today", "no_number"},
          number : {0}, unit : {""}]
    \cup [kind : {"no_unit"}, number : DateNumbers, unit : {""}]

\* the hours of timedelta(hours=n), (days=n), (weeks=n), (days=n * 30)
timedelta(unit, number) ==
  CASE unit = "hour" -> number
    [] unit = "day" -> 24 * number
    [] unit = "week" -> 7 * 24 * number
    [] unit = "month" -> 24 * (number * 30)

\* _parse_posted_date at the time now: the datetime returned, or raised
parse_posted_date(date_text, now) ==
  IF date_text.kind = "empty" THEN [raised |-> FALSE, value |-> now]
  ELSE IF date_text.kind \in {"just_posted", "today"}
       THEN [raised |-> FALSE, value |-> now]
  ELSE IF date_text.kind = "no_number" THEN [raised |-> FALSE, value |-> now]
  ELSE IF date_text.unit \in DateUnits
       THEN LET delta == timedelta(date_text.unit, date_text.number)
            IN IF now - delta < 0 THEN [raised |-> TRUE, value |-> 0]
               ELSE [raised |-> FALSE, value |-> now - delta]
  ELSE [raised |-> FALSE, value |-> now]

(***************************************************************************)
(* _parse_extraction_result and _item_to_job_listing.  An extraction item  *)
(* is read for its title, job_key, job_url, company, location, posted_date *)
(* and salary; a JobListing is kept as the fields made of them.  The       *)
(* strings are a few values of each kind the code tells apart: missing     *)
(* (None, which `or ''` and the default '' turn into ''), empty, blank,    *)
(* and for a url relative or absolute.                                     *)
(***************************************************************************)
\* the fields of the JobListing dataclass
JobListingFields ==
  {"title", "company", "location", "description", "url", "posted_date",
   "board_source", "id", "salary_min", "salary_max", "job_type",
   "remote_type", "scraped_at", "raw_html"}

Titles == {"", "  ", "Developer"}
JobKeys == {"", "abc123"}
JobUrls == {"", "/rc/clk?jk=abc123", "https://www.indeed.com/viewjob?jk=abc123"}
\* company, location and posted_date of an item: all missing, all given, or
\* given with a date that lies before datetime.min
OverflowDateText == [kind |-> "ago", number |-> 800000, unit |-> "day"]
Details ==
  {<<"", "", EmptyDateText>>,
   <<"Acme", "Taipei", [kind |-> "ago", number |-> 3, unit |-> "day"]>>,
   <<"Acme", "Taipei", OverflowDateText>>}

NoSalaryItem ==
  [salary_min |-> None, salary_max |-> None, has_text |-> FALSE,
   text |-> NoSalaryText]
HourlyItem ==
  [salary_min |-> None, salary_max |-> None, has_text |-> TRUE,
   text |-> [figures |-> <<[value |-> 25, k |-> FALSE],
                           [value |-> 35, k |-> FALSE]>>,
             unit |-> "an hour"]]

NoDict ==
  [kind |-> "no_dict", title |-> "", job_key |-> "", job_url |-> "",
   company |-> "", location |-> "", posted_date |-> EmptyDateText,
   salary |-> NoSalaryItem]

\* an item of the extracted list: a dict, or something that is no dict
Items ==
  {[kind |-> "dict", title |-> t, job_key |-> k, job_url |-> u,
    company |-> e[1], location |-> e[2], posted_date |-> e[3],
    salary |-> NoSalaryItem] :
     t \in Titles, k \in JobKeys, u \in JobUrls, e \in Details}
    \cup {NoDict}

\* items that differ in the posted date and the salary they show
DatedItems ==
  {[kind |-> "dict", title |-> "Developer", job_key |-> "abc123",
    job_url |-> "", company |-> "Acme", location |-> "Taipei",
    posted_date |-> d, salary |-> sal] :
     d \in DateTexts, sal \in {NoSalaryItem, HourlyItem}}

\* mutant: the title is not stripped
strip_Not(t) == t

\* str.strip()
strip(t) == IF t = "  " THEN "" ELSE t

\* str.startswith('http')
startswith_http(u) == u = "https://www.indeed.com/viewjob?jk=abc123"

\* f"{self.base_url}/viewjob?jk={job_key}"
viewjob_url(k) == "https://www.indeed.com/viewjob?jk=abc123"

\* mutant: the base url is not put before a relative job_url
absolute_url_Bare(u) == u

\* f"{self.base_url}{job_url}"
absolute_url(u) == "https://www.indeed.com/rc/clk?jk=abc123"

NoListing == [title |-> "", url |-> "", none |-> TRUE]

\* _item_to_job_listing at the time now: None (NoListing) or the JobListing
item_to_job_listing(item, now) ==
  LET title == strip(item.title)
      company == strip(IF item.company = "" THEN "Unknown" ELSE item.company)
      location == strip(IF item.location = "" THEN "Remote"
                        ELSE item.location)
      job_url == IF item.job_key # "" /\ item.job_url = ""
                 THEN viewjob_url(item.job_key)
                 ELSE IF item.job_url # "" /\ ~startswith_http(item.job_url)
                      THEN absolute_url(item.job_url)
                      ELSE item.job_url
      posted_date == parse_posted_date(item.posted_date, now)
      salary == parse_salary(item.salary)
  IN IF title = "" THEN NoListing
     ELSE [title |-> title, company |-> company, location |-> location,
           url |-> job_url, posted_date |-> posted_date.value,
           salary |-> salary, none |-> FALSE]

\* _item_to_job_listing raises: item.get on something that is no dict, or
\* the OverflowError of _parse_posted_date, reached when there is a title
item_raises(item, now) ==
  \/ item.kind # "dict"
  \/ /\ strip(item.title) # ""
     /\ parse_posted_date(item.posted_date, now).raised

\* the loop of _parse_extraction_result: an item that raises is skipped,
\* like one without a title
RECURSIVE parse_items(_, _)
parse_items(items, now) ==
  IF items = <<>> THEN <<>>
  ELSE LET item == Head(items)
           job == IF item_raises(item, now) THEN NoListing
                  ELSE item_to_job_listing(item, now)
       IN IF ~job.none /\ job.title # ""
          THEN <<job>> \o parse_items(Tail(items), now)
          ELSE parse_items(Tail(items), now)

\* the extracted content: nothing, text that is no JSON, a JSON list, a
\* JSON dict with the key 'jobs' whose value is a list, one whose value is
\* null or a number, or other JSON
ItemLists == UNION {[1..k -> Items] : k \in 0..MaxItems}

Contents ==
  [kind : {"list", "jobs_dict"}, items : ItemLists]
    \cup [kind : {"nothing", "no_json", "jobs_null", "other_json"},
          items : {<<>>}]

\* _parse_extraction_result at the time now: the list returned, or raised
\* (`for item in items` over None or a number, outside the inner try and
\* not a JSONDecodeError)
parse_extraction_result(content, use_llm, now) ==
  CASE content.kind \in {"nothing", "no_json"} ->
         [raised |-> FALSE, jobs |-> <<>>]
    [] content.kind = "jobs_dict" ->
         [raised |-> FALSE,
          jobs |-> IF use_llm THEN parse_items(content.items, now) ELSE <<>>]
    [] content.kind = "jobs_null" -> [raised |-> use_llm, jobs |-> <<>>]
    [] content.kind = "list" ->
         [raised |-> FALSE, jobs |-> parse_items(content.items, now)]
    [] OTHER -> [raised |-> FALSE, jobs |-> <<>>]

ParseInit ==
  /\ InitScraper
  /\ cfg \in RotatorConfigs
  /\ cfg.nproxies = 1
  /\ site.script_page = -1
  /\ delay = NoDelay
  /\ dedup = NoDedup
  /\ tasks = NoTasks
  /\ indeed = NoRuns
  /\ parse \in [content : Contents, use_llm : BOOLEAN, called : {FALSE},
                 raised : {FALSE}, jobs : {<<>>}]

ParseResult ==
  /\ ~parse.called
  /\ LET r == parse_extraction_result(parse.content, parse.use_llm, FirstNow)
     IN parse' = [parse EXCEPT !.called = TRUE, !.raised = r.raised,
                               !.jobs = r.jobs]
  /\ UNCHANGED <<cfg, rotator_vars, scraper_vars, search_vars, site, hist,
                 delay, dedup,
                 tasks, indeed>>

ParseNext == ParseResult

ParseSpec == ParseInit /\ [][ParseNext]_vars

(***************************************************************************)
(* The same content extracted again, and its date text parsed, while the   *)
(* clock (datetime.now(), read inside _parse_posted_date) advances.        *)
(***************************************************************************)
DatedContents == [kind : {"list"}, items : {<<i>> : i \in DatedItems}]

DateInit ==
  /\ InitScraper
  /\ cfg \in RotatorConfigs
  /\ cfg.nproxies = 1
  /\ site.script_page = -1
  /\ delay = NoDelay
  /\ dedup = NoDedup
  /\ tasks = NoTasks
  /\ indeed = NoRuns
  /\ parse \in [content : DatedContents, now : {FirstNow}, runs : {<<>>},
                 called : {FALSE}, called_at : {FirstNow},
                 posted_date : {[raised |-> FALSE, value |-> 0]}]

DateIdle ==
  UNCHANGED <<cfg, rotator_vars, scraper_vars, search_vars, site, hist,
                 delay, dedup,
              tasks, indeed>>

\* an hour passes
Tick ==
  /\ parse.now < FirstNow + MaxTicks
  /\ parse' = [parse EXCEPT !.now = @ + 1]
  /\ DateIdle

\* _parse_extraction_result(content) once more
Extract ==
  /\ Len(parse.runs) < 2
  /\ parse' = [parse EXCEPT
                 !.runs = Append(@, parse_extraction_result(parse.content,
                                                            FALSE, parse.now))]
  /\ DateIdle

\* _parse_posted_date(date_text) of the item's date text
ParsePostedDate ==
  /\ ~parse.called
  /\ parse' = [parse EXCEPT
                 !.called = TRUE, !.called_at = parse.now,
                 !.posted_date = parse_posted_date(
                                   parse.content.items[1].posted_date,
                                   parse.now)]
  /\ DateIdle

DateNext == Tick \/ Extract \/ ParsePostedDate

DateSpec == DateInit /\ [][DateNext]_vars


(***************************************************************************)
(* _smart_delay called on its own.  Delays are counted in half seconds.    *)
(* random.uniform(a, b) is a + (b - a) * random.random(), a number N with  *)
(* a <= N <= b: random.random() is below 1, but its greatest value         *)
(* 1 - 2^-53 makes the floating-point sum round to b (2 + 3 * (1 - 2^-53)  *)
(* is 5.0), so b is among the values.                                      *)
(***************************************************************************)
\* self.config.get('min_page_delay', 15)
DefaultMinPageDelay == 15
\* self.config.get('max_page_delay', 30)
DefaultMaxPageDelay == 30
\* self.config.get('cloudflare_backoff', 120)
DefaultCloudflareBackoff == 120
\* how many calls of _smart_delay are followed
MaxDelays == 2

TimingConfigs ==
  [min_page_delay : {DefaultMinPageDelay, 20},
   max_page_delay : {DefaultMaxPageDelay},
   cloudflare_backoff : {DefaultCloudflareBackoff, 60}]

DelayPages == {0, 1, 5}

uniform(a, b) == a..b

\* mutant: the page-based policy is consulted before the detection flag
smart_delay_delays_PageFirst(conf, page, cloudflare_detected) ==
  IF page = 0 THEN uniform(2 * 2, 5 * 2)
  ELSE IF page < 3
       THEN uniform(conf.min_page_delay, conf.min_page_delay * 2)
  ELSE uniform(conf.min_page_delay * 2, conf.max_page_delay * 2)

\* mutant: the early pages are delayed like the later ones
smart_delay_delays_NoEarly(conf, page, cloudflare_detected) ==
  IF cloudflare_detected
  THEN uniform((conf.cloudflare_backoff * 8 * 2) \div 10,
               (conf.cloudflare_backoff * 12 * 2) \div 10)
  ELSE IF page = 0 THEN uniform(2 * 2, 5 * 2)
  ELSE uniform(conf.min_page_delay * 2, conf.max_page_delay * 2)

\* the delays _smart_delay may sleep, in half seconds
smart_delay_delays(conf, page, cloudflare_detected) ==
  IF cloudflare_detected
  THEN uniform((conf.cloudflare_backoff * 8 * 2) \div 10,
               (conf.cloudflare_backoff * 12 * 2) \div 10)
  ELSE IF page = 0 THEN uniform(2 * 2, 5 * 2)
  ELSE IF page < 3
       THEN uniform(conf.min_page_delay, conf.min_page_delay * 2)
  ELSE LET later == uniform(conf.min_page_delay * 2, conf.max_page_delay * 2)
           think_time == uniform(5 * 2, 15 * 2)
       IN later \cup {d + t : d \in later, t \in think_time}

DelayInit ==
  /\ InitScraper
  /\ cfg \in RotatorConfigs
  /\ cfg.nproxies = 1
  /\ site.script_page = -1
  /\ dedup = NoDedup
  /\ tasks = NoTasks
  /\ indeed = NoRuns
  /\ parse = NoParse
  /\ delay \in [conf : TimingConfigs, page_num : {0},
                 cloudflare_detected : {FALSE}, slept : {0}, calls : {0}]

\* await self._smart_delay(page, cloudflare_detected)
SmartDelay(page, cloudflare_detected) ==
  /\ delay.calls < MaxDelays
  /\ cloudflare_detected_count' =
       smart_delay(cloudflare_detected_count, cloudflare_detected)
  /\ \E d \in smart_delay_delays(delay.conf, page, cloudflare_detected) :
       delay' = [delay EXCEPT !.page_num = page,
                              !.cloudflare_detected = cloudflare_detected,
                              !.slept = d, !.calls = @ + 1]
  /\ UNCHANGED <<cfg, rotator_vars, crawler, current_proxy,
                 pages_since_proxy_rotation, pages_scraped_in_session,
                 search_vars, site, hist, tasks, indeed, parse, dedup>>

DelayNext ==
  \E page \in DelayPages, cloudflare_detected \in BOOLEAN :
    SmartDelay(page, cloudflare_detected)

DelaySpec == DelayInit /\ [][DelayNext]_vars

(***************************************************************************)
(* JobDeduplicator.deduplicate_jobs.  A job is read for its company,       *)
(* title, location, url and scraped_at; its id is the md5 of the           *)
(* lower-cased company:title:location (JobListing.generate_id), which is   *)
(* kept here as the triple itself.                                         *)
(***************************************************************************)
\* how many jobs a list holds at most
MaxJobs == 2

DedupCompanies == {"Company A", "Company B"}
DedupTitles == {"Director of Engineering", "Senior Engineer", "Sr. Engineer"}
DedupUrls ==
  {"", "https://indeed.com/viewjob?jk=abc123",
   "https://indeed.com/viewjob?jk=xyz789", "https://example.com/jobs/1"}

DedupJobs ==
  [company : DedupCompanies, title : DedupTitles, location : {"Remote"},
   url : DedupUrls, scraped_at : {1, 2}]
JobLists == UNION {[1..n -> DedupJobs] : n \in 0..MaxJobs}

\* JobListing.id
job_id(job) == <<job.company, job.title, job.location>>

\* normalize: lower case, special characters to spaces, spaces collapsed
normalize(text) ==
  CASE text = "Company A" -> "company a"
    [] text = "Company B" -> "company b"
    [] text = "Director of Engineering" -> "director of engineering"
    [] text = "Senior Engineer" -> "senior engineer"
    [] text = "Sr. Engineer" -> "sr engineer"

\* title.replace('senior', 'sr').replace('junior', 'jr') and so on
replace_variations(title) ==
  IF title = "senior engineer" THEN "sr engineer" ELSE title

\* _create_fuzzy_key: f"{company}:{title}"
create_fuzzy_key(job) ==
  <<normalize(job.company), replace_variations(normalize(job.title))>>

\* urlparse(url).netloc
netloc(url) ==
  IF url = "https://example.com/jobs/1" THEN "example.com" ELSE "indeed.com"

\* urlparse(url).path
path(url) == IF url = "https://example.com/jobs/1" THEN "/jobs/1" ELSE "/viewjob"

\* _is_duplicate_url
is_duplicate_url(job, existing_jobs) ==
  /\ job.url # ""
  /\ \E i \in DOMAIN existing_jobs :
       /\ existing_jobs[i].url # ""
       /\ netloc(job.url) = netloc(existing_jobs[i].url)
       /\ path(job.url) = path(existing_jobs[i].url)

\* sorted(jobs, key=lambda j: j.scraped_at, reverse=True): newer first,
\* jobs of one time in the order of the list
RECURSIVE sorted_from(_, _)
sorted_from(job_list, t) ==
  IF t = 0 THEN <<>>
  ELSE SelectSeq(job_list, LAMBDA j : j.scraped_at = t)
         \o sorted_from(job_list, t - 1)

\* mutant: the list is reversed, not sorted
sorted_jobs_Reversed(job_list) ==
  [i \in 1..Len(job_list) |-> job_list[Len(job_list) + 1 - i]]

sorted_jobs(job_list) == sorted_from(job_list, 2)

\* the loop of deduplicate_jobs; seen_ids and seen_fuzzy hold the ids and
\* the fuzzy keys of unique_jobs
RECURSIVE dedup_loop(_, _)
dedup_loop(job_list, unique_jobs) ==
  IF job_list = <<>> THEN unique_jobs
  ELSE LET job == Head(job_list)
           seen_ids == {job_id(unique_jobs[i]) : i \in DOMAIN unique_jobs}
           seen_fuzzy ==
             {create_fuzzy_key(unique_jobs[i]) : i \in DOMAIN unique_jobs}
       IN IF \/ job_id(job) \in seen_ids
             \/ create_fuzzy_key(job) \in seen_fuzzy
             \/ is_duplicate_url(job, unique_jobs)
          THEN dedup_loop(Tail(job_list), unique_jobs)
          ELSE dedup_loop(Tail(job_list), Append(unique_jobs, job))

\* JobDeduplicator.deduplicate_jobs
deduplicate_jobs(job_list) == dedup_loop(sorted_jobs(job_list), <<>>)

DedupInit ==
  /\ InitScraper
  /\ cfg \in RotatorConfigs
  /\ cfg.nproxies = 1
  /\ site.script_page = -1
  /\ delay = NoDelay
  /\ tasks = NoTasks
  /\ indeed = NoRuns
  /\ parse = NoParse
  /\ dedup \in [jobs : JobLists, called : {FALSE}, unique_jobs : {<<>>},
                 called_again : {FALSE}, again : {<<>>}]

DeduplicateJobs ==
  /\ ~dedup.called
  /\ dedup' = [dedup EXCEPT !.called = TRUE,
                            !.unique_jobs = deduplicate_jobs(dedup.jobs)]
  /\ UNCHANGED <<cfg, rotator_vars, scraper_vars, search_vars, site, hist,
                 tasks, indeed, parse, delay>>

\* deduplicate_jobs applied to the list it returned
DeduplicateAgain ==
  /\ dedup.called
  /\ ~dedup.called_again
  /\ dedup' = [dedup EXCEPT !.called_again = TRUE,
                            !.again = deduplicate_jobs(dedup.unique_jobs)]
  /\ UNCHANGED <<cfg, rotator_vars, scraper_vars, search_vars, site, hist,
                 tasks, indeed, parse, delay>>

DedupNext == DeduplicateJobs \/ DeduplicateAgain

DedupSpec == DedupInit /\ [][DedupNext]_vars

(***************************************************************************)
(* The claims.                                                             *)
(***************************************************************************)
\* C1: for every page url of a run of search, the retry loop issues at most
\* max_retries fetches of that url, whatever the site answers, headless or
\* headful.  (The second fetches of hybrid mode are not counted.)
C1_AttemptsBounded == hist.cur.attempts <= max_retries

\* C2: search terminates for every sequence of answers of the site, a
\* challenge on every fetch included, headless or headful.
C2_Terminates == <>(pc \in {"done", "raised"})


\* the page the site's script singles out
ScriptPage == site.script_page

HasPage(js, p) == \E i \in 1..Len(js) : js[i].page = p

\* the retry loop has left the script's page
LeftScriptPage == ScriptPage # -1 /\ page_num > ScriptPage

ChallengeStep ==
  /\ pc = "inflight"
  /\ pc' # "inflight"
  /\ hist'.cur.last_outcome = "challenge"

FailureStep ==
  /\ pc \in {"inflight", "llm_inflight"}
  /\ pc' # pc
  /\ hist'.cur.last_outcome \in {"failed", "error"}

\* C5: every escalating fetch that is no challenge records exactly one
\* failure against the proxy in use.
C5_FailureMarksProxy ==
  [][(FailureStep /\ current_proxy # None) =>
       IF current_proxy # None
       THEN failures'[current_proxy] = failures[current_proxy] + 1
       ELSE TRUE]_vars

\* C6: after an escalation the next fetch of the same page runs on another
\* browser session.
C6_RotatedAfterEscalation ==
  (pc = "inflight" /\ hist.cur.last_outcome \in Escalating) =>
     crawler # hist.cur.last_sess

\* C7: a page given up is not fetched again: the next fetch is of the
\* following page.
C7_AbandonedNotRetried == pc = "inflight" => ~hist.cur.abandoned

\* C8: no page is fetched once max_consecutive_failures pages in a row have
\* been given up.
C8_StopsAfterThree ==
  pc \in {"inflight", "llm_inflight"} =>
     hist.streak < max_consecutive_failures

\* C9: a run that ends early returns the records collected so far, cut at
\* max_results; it does not raise.
C9_PartialResults ==
  (pc \in {"done", "raised"} /\ jobs # <<>>) =>
     (pc = "done" /\ result = Truncate(jobs, cfg.max_results))

\* search returned because a successfully fetched page had no records
EndedEmpty == pc = "done" /\ hist.cur.last_outcome = "empty"

\* C10 as stated: the run ends on an empty page 0 after exactly one
\* confirming retry of it, and on an empty later page without a retry.
C10_ConfirmsEmptyFirstPage ==
  (EndedEmpty /\ hist.cur.attempts < AttemptCap) =>
     hist.cur.attempts =
        hist.cur.escalations + (IF page_num = 0 THEN 2 ELSE 1)

\* C10 as amended: an empty page ends the run at once, page 0 like a later
\* page: the retry loop fetches it once more only after an escalation, and
\* search returns the records of the earlier pages.
C10_EmptyEndsRun ==
  EndedEmpty =>
     /\ hist.cur.page = page_num
     /\ hist.cur.attempts < AttemptCap =>
           hist.cur.attempts = hist.cur.escalations + 1
     /\ ~HasPage(jobs, page_num)
     /\ result = Truncate(jobs, cfg.max_results)

C10_Witness ==
  /\ EndedEmpty
  /\ page_num = 0
  /\ hist.cur.attempts = 1
  /\ hist.cur.escalations = 0

\* the run has returned, and its last answer was o
EndedOn(r, o) ==
  /\ indeed[r].pc = "done"
  /\ indeed[r].answers # <<>>
  /\ indeed[r].answers[Len(indeed[r].answers)] = o

\* the answers of the run before its last one
Earlier(r) == SubSeq(indeed[r].answers, 1, Len(indeed[r].answers) - 1)

BlockedAnswers == {"http_403", "http_429", "http_error", "captcha"}

\* C11: what search returns tells a run that ended because the results ran
\* out from a run that ended because the page was blocked or challenged: two
\* runs that got the same answers up to the last one, an empty page in the
\* one and a blocked page in the other, do not return the same.
C11_EndReasonVisible ==
  (/\ EndedOn(1, "empty")
   /\ \E o \in BlockedAnswers : EndedOn(2, o)
   /\ Earlier(1) = Earlier(2))
  => indeed[1].result # indeed[2].result

\* C12: a page answered with status 403 or 429 is escalated: it is fetched
\* again while attempts remain, and the run does not return as it does when
\* the results are exhausted.
C12_BlockedIsRetried ==
  \A r \in Runs :
    ~(/\ EndedOn(r, "http_403") \/ EndedOn(r, "http_429")
      /\ indeed[r].retry_count < indeed_max_retries)

\* the state get_next_proxy returned in
JustReturned == tasks.last_call = "get"

\* C13: after any calls of get_next_proxy, mark_failure and mark_success,
\* the proxy get_next_proxy returns has, as the call returns, a failure
\* count below max_failures: it was healthy, or the call cleared the counts.
C13_ReturnedIsHealthy ==
  JustReturned =>
     /\ tasks.proxy \in Proxies(cfg.nproxies)
     /\ failures[tasks.proxy] < max_failures
     /\ tasks.cleared => failures = NoFailures

C13_Witness ==
  /\ JustReturned
  /\ tasks.cleared
  /\ cfg.nproxies > 1
  /\ tasks.proxy = 1

\* a step that is a call of get_next_proxy
GetStep == tasks'.last_call = "get"

\* C14 as stated: with N proxies configured, once N failures in a row are
\* reported against each of them, the next get_next_proxy clears all
\* counters and returns a configured proxy.
C14_ResetAfterNEach ==
  [][(GetStep /\ \A p \in Proxies(cfg.nproxies) :
                    failures[p] >= cfg.nproxies)
      => (failures' = NoFailures /\ tasks'.proxy \in Proxies(cfg.nproxies))]_vars

\* C14 as amended: the number of failures that counts is max_failures, not
\* the number of proxies.  Once every proxy has max_failures or more, the
\* next get_next_proxy clears all counters, returns the first configured
\* proxy and leaves current_idx where it was; while one proxy has fewer, the
\* call clears nothing and returns a proxy with fewer.
C14_ResetAfterMaxFailuresEach ==
  [][GetStep =>
       IF AllUnhealthy
       THEN /\ failures' = NoFailures
            /\ tasks'.proxy = 1
            /\ current_idx' = current_idx
       ELSE /\ failures' = failures
            /\ failures[tasks'.proxy] < max_failures]_vars

C14_Witness ==
  /\ JustReturned
  /\ tasks.cleared
  /\ cfg.nproxies = MaxProxies
  /\ failures = NoFailures
  /\ tasks.returned # None

\* the healthy proxy that follows q in configuration order, cyclically
RoundRobinNext(n, q, fl) ==
  LET ks == {k \in 1..n : Healthy(fl, ((q - 1 + k) % n) + 1)}
      k == CHOOSE j \in ks : \A i \in ks : j <= i
  IN ((q - 1 + k) % n) + 1

\* C15: get_next_proxy is round-robin over the healthy proxies: while one
\* is healthy, a call returns the healthy proxy that follows the one the
\* call before returned, also when that call was a reset.
C15_RoundRobin ==
  [][(GetStep /\ tasks'.returned # None /\ ~AllUnhealthy)
      => tasks'.proxy = RoundRobinNext(cfg.nproxies, tasks'.returned, failures)]_vars

\* a step that is a call of mark_failure
FailStep == tasks'.last_call = "fail"

\* C16: with several tasks calling one ProxyRotator in any interleaving,
\* every mark_failure raises that proxy's count by exactly one and changes
\* no other count, current_idx stays an index of the proxy list, and
\* get_next_proxy returns only proxies below the failure threshold.
C16_SharedRotatorSafe ==
  /\ [](current_idx \in 0..(cfg.nproxies - 1))
  /\ [](JustReturned => Healthy(failures, tasks.proxy))
  /\ [][FailStep => failures' = [failures EXCEPT ![tasks'.proxy] = @ + 1]]_vars

C16_Witness ==
  /\ tasks.last_call = "fail"
  /\ tasks.task = NumTasks
  /\ tasks.returned # None
  /\ cfg.nproxies > 1
  /\ failures[1] >= max_failures
  /\ failures[2] = 1

\* a step in which _rotate_browser closes the browser session
TeardownStep == pc = "rot_close" /\ pc' = "rot_pause"

Fetching == pc \in {"inflight", "llm_inflight"}

C18_OneFetchNoTeardownInFlight ==
  /\ hist.in_flight \in {0, 1}
  /\ hist.in_flight = 1 => (Fetching /\ crawler # None)
  /\ pc \in {"rot_close", "rot_pause", "rot_open"} => hist.in_flight = 0

C18_Witness ==
  /\ pc = "rot_pause"
  /\ crawler = None
  /\ hist.cur.attempts > 1
  /\ hist.cur.last_outcome \in Escalating
  /\ jobs # <<>>

HasTitle(item) == item.kind = "dict" /\ item.title \notin {"", "  "}

\* the items of the content that is read as a list of items
ReadItems ==
  IF \/ parse.content.kind = "list"
     \/ parse.content.kind = "jobs_dict" /\ parse.use_llm
  THEN parse.content.items
  ELSE <<>>

\* an item that _item_to_job_listing turns into a JobListing
Converts(item) == HasTitle(item) /\ ~item_raises(item, FirstNow)

SemanticPage ==
  /\ hist.cur.refetches > 0
  /\ hist.cur.last_outcome = "ok"
  /\ HasPage(jobs, hist.cur.page)

\* C20: in hybrid mode the semantic extraction is consulted only when the
\* structural extraction of the page found no record, and the records it
\* then contributes are tagged with strategy_used (= semantic).
C20_SemanticFallbackTagged ==
  /\ pc = "llm_inflight" =>
        (cfg.extraction_mode = "hybrid" /\ ~HasPage(jobs, page_num))
  /\ SemanticPage => "strategy_used" \in JobListingFields


\* the salary text of an item that holds nothing else
TextOnly(item) == item.salary_min = None /\ item.has_text

\* what the rule of the claim gives for one figure: times 1000 when a K is
\* behind it, times 2080 when the text is hourly
RuleValue(text, fig) ==
  LET in_k == IF fig.k THEN fig.value * k_multiplier ELSE fig.value
  IN IF contains_hour(text) THEN in_k * annual_hours ELSE in_k

\* C21: _parse_salary returns the least and the greatest figure of the
\* compensation text, each figure multiplied by 1000 when it is K-suffixed
\* and by 2080 when the text is hourly, and (None, None) for an item
\* without salary text.
C21_SalaryRule ==
  parse.called =>
    /\ ~parse.item.has_text /\ parse.item.salary_min = None
         => parse.salary.none
    /\ TextOnly(parse.item) /\ parse.item.text.figures # <<>>
         => LET text == parse.item.text
                values == {RuleValue(text, text.figures[i]) :
                             i \in DOMAIN text.figures}
            IN /\ ~parse.salary.none
               /\ parse.salary.min \in values
               /\ parse.salary.max \in values
               /\ \A v \in values :
                    parse.salary.min <= v /\ v <= parse.salary.max

HoursAgo(date_text) ==
  CASE date_text.unit = "hour" -> date_text.number
    [] date_text.unit = "day" -> date_text.number * 24
    [] date_text.unit = "week" -> date_text.number * 168
    [] date_text.unit = "month" -> date_text.number * 720

\* C25: _parse_posted_date never raises; it returns the extraction time
\* minus N hours, N days, N weeks or 30 N days for 'N hours/days/weeks/
\* months ago', and the extraction time for empty text, 'Just posted',
\* 'today' and any text it cannot parse.
C25_PostedDate ==
  parse.called =>
    LET date_text == parse.content.items[1].posted_date
    IN /\ ~parse.posted_date.raised
       /\ parse.posted_date.value =
            IF date_text.kind = "ago"
            THEN parse.called_at - HoursAgo(date_text)
            ELSE parse.called_at

\* C26: _parse_extraction_result never raises: whatever the content is
\* (nothing, no JSON, JSON of an unexpected shape, an object whose 'jobs'
\* is no list, items that fail to convert), it returns a list.
C26_NeverRaises == parse.called => ~parse.raised

\* the dict items of a content that is a JSON list, with a title that is
\* not the empty string
TitledItems ==
  SelectSeq(parse.content.items,
            LAMBDA item : item.kind = "dict" /\ item.title # "")

DetailUrl(item) ==
  CASE item.job_url = "https://www.indeed.com/viewjob?jk=abc123" ->
         item.job_url
    [] item.job_url = "/rc/clk?jk=abc123" ->
         "https://www.indeed.com/rc/clk?jk=abc123"
    [] OTHER -> IF item.job_key = "abc123"
                THEN "https://www.indeed.com/viewjob?jk=abc123" ELSE ""

WithinBackoff ==
  /\ 10 * delay.slept >= 8 * 2 * delay.conf.cloudflare_backoff
  /\ 10 * delay.slept <= 12 * 2 * delay.conf.cloudflare_backoff

\* C23 as stated: _smart_delay(0, False) sleeps at least 2 and less than 5
\* seconds; with the detection flag set, for every page index, it sleeps
\* between 80% and 120% of cloudflare_backoff, whatever the page-based
\* policy would give.
C23_DelayRanges ==
  delay.calls > 0 =>
    /\ delay.page_num = 0 /\ ~delay.cloudflare_detected
         => 2 * 2 <= delay.slept /\ delay.slept < 5 * 2
    /\ delay.cloudflare_detected => WithinBackoff

\* C23 as amended: _smart_delay(0, False) sleeps at least 2 and at most 5
\* seconds, 5 included; with the detection flag set, for every page index,
\* it sleeps between 80% and 120% of cloudflare_backoff, whatever the
\* page-based policy would give.
C23_DelayRangesClosed ==
  delay.calls > 0 =>
    /\ delay.page_num = 0 /\ ~delay.cloudflare_detected
         => 2 * 2 <= delay.slept /\ delay.slept <= 5 * 2
    /\ delay.cloudflare_detected => WithinBackoff

\* a flagged call for page 5 slept the least backoff, 80% of
\* cloudflare_backoff, and not a delay of the policy for later pages
C23_Witness ==
  /\ delay.calls > 0
  /\ delay.cloudflare_detected
  /\ delay.page_num = 5
  /\ 10 * delay.slept = 8 * 2 * delay.conf.cloudflare_backoff
  /\ delay.slept > (DefaultMaxPageDelay + 15) * 2

\* a call of _smart_delay returns
SmartDelayStep == delay'.calls = delay.calls + 1

\* C24: a call of _smart_delay with the detection flag set raises
\* cloudflare_detected_count by exactly one, a call without it leaves the
\* count as it is, and neither changes any other state of the scraper.
C24_SmartDelayFrame ==
  [][SmartDelayStep =>
       /\ cloudflare_detected_count' =
            IF delay'.cloudflare_detected THEN cloudflare_detected_count + 1
            ELSE cloudflare_detected_count
       /\ UNCHANGED <<cfg, rotator_vars, crawler, current_proxy,
                      pages_since_proxy_rotation, pages_scraped_in_session,
                      search_vars>>]_vars

\* two calls were made and one of them had the detection flag set
C24_Witness ==
  /\ delay.calls = 2
  /\ cloudflare_detected_count = 1
  /\ ~delay.cloudflare_detected

\* the jobs of the list differ pairwise in company and in title, and no
\* two of them have the same url
AllDifferent(job_list) ==
  \A i, j \in DOMAIN job_list :
    i # j => /\ job_list[i].company # job_list[j].company
             /\ create_fuzzy_key(job_list[i])[2] # create_fuzzy_key(job_list[j])[2]
             /\ job_list[i].url # job_list[j].url

\* C28: deduplicate_jobs keeps every job of a list whose jobs differ
\* pairwise in company and title and have different urls, urls that differ
\* only in the query included; a job is dropped only when a job that is
\* kept has the same id, the same fuzzy key or the same url.
C28_KeepsDifferentJobs ==
  dedup.called =>
    /\ AllDifferent(dedup.jobs)
         => Len(dedup.unique_jobs) = Len(dedup.jobs)
    /\ \A i \in DOMAIN dedup.jobs :
         (\A k \in DOMAIN dedup.unique_jobs :
             dedup.unique_jobs[k] # dedup.jobs[i])
           => \E k \in DOMAIN dedup.unique_jobs :
                \/ job_id(dedup.unique_jobs[k]) = job_id(dedup.jobs[i])
                \/ create_fuzzy_key(dedup.unique_jobs[k])
                     = create_fuzzy_key(dedup.jobs[i])
                \/ dedup.unique_jobs[k].url = dedup.jobs[i].url

\* at least two of the configured proxies are healthy
TwoHealthy ==
  Cardinality({p \in Proxies(cfg.nproxies) : Healthy(failures, p)}) >= 2

\* the proxy check of search finds the proxy rotation due
ProxyRotationDue ==
  /\ pc = "proxy_check"
  /\ pages_since_proxy_rotation >= cfg.rotate_proxy_every

\* the browser session that the proxy check asked for is opened
ProxySessionOpened == pc = "rot_open" /\ pc' = "proxy_done"

\* C29: when the proxy check of search finds the rotation due and at least
\* two healthy proxies are configured, the browser session is rotated, and
\* the session opened for the next fetch is bound to another proxy than
\* the session it replaces, on which the previous fetch was made.
C29_NextSessionOtherProxy ==
  /\ [][ProxyRotationDue /\ TwoHealthy => pc' = "rot_close"]_vars
  /\ [][ProxySessionOpened /\ TwoHealthy
          => hist'.session_proxy # hist.session_proxy]_vars

\* C30: every challenge detected during search raises
\* cloudflare_detected_count by exactly one.
C30_ChallengeCountsOnce ==
  [][ChallengeStep =>
       cloudflare_detected_count' = cloudflare_detected_count + 1]_vars

\* C31: whenever a browser session is open, current_proxy, the endpoint
\* that mark_failure and mark_success are applied to, is the endpoint the
\* session's browser was configured with, from the first session on.
C31_CurrentProxyIsSessionProxy ==
  crawler # None => current_proxy = hist.session_proxy

\* C32: whenever a page fetch of search has been issued, the session it
\* runs on has collected fewer than max_pages_per_session pages and has
\* counted fewer than two detections, so _should_rotate_browser would not
\* reject it; and _rotate_browser sets both counters to 0.
C32_FetchOnFreshSession ==
  /\ [](Fetching =>
          /\ pages_scraped_in_session < cfg.max_pages_per_session
          /\ cloudflare_detected_count < DetectionRotateThreshold)
  /\ [][TeardownStep =>
          /\ pages_scraped_in_session' = 0
          /\ cloudflare_detected_count' = 0]_vars

\* a fetch is in flight on a session that is one page and one detection
\* short of being rejected
C32_Witness ==
  /\ Fetching
  /\ pages_scraped_in_session = cfg.max_pages_per_session - 1
  /\ cloudflare_detected_count = DetectionRotateThreshold - 1
  /\ hist.sessions >= 2

\* run r's call of _scrape_page ends with the answer o
ScrapeEnds(r, o) ==
  /\ indeed[r].pc = "scraping"
  /\ indeed'[r].pc # "scraping"
  /\ indeed'[r].answers = Append(indeed[r].answers, o)

\* C33: when scraping a page fails with a browser-closed or
\* connection-closed error, search closes and re-initialises the browser
\* and scrapes the page again, up to 3 attempts, after which the error is
\* raised; scraping that fails with any other error raises it to the
\* caller.
C33_ClosedRetriedOthersRaised ==
  [][\A r \in Runs :
       /\ ScrapeEnds(r, "closed_in_body") \/ ScrapeEnds(r, "browser_closed")
            => IF indeed[r].retry_count + 1 < indeed_max_retries
               THEN indeed'[r].pc = "reinit"
               ELSE indeed'[r].pc = "raised"
       /\ ScrapeEnds(r, "error_in_body") \/ ScrapeEnds(r, "error")
            => indeed'[r].pc = "raised"]_vars

\* C34 as stated: during the pause of _rotate_browser the old session is
\* still open; it is closed only after the pause.
C34_PauseBeforeTeardown == pc = "rot_pause" => crawler # None

\* the new session of _rotate_browser is opened
SessionOpened == pc = "rot_open" /\ pc' = rot_ret

\* C34 as amended: _rotate_browser first tears the current session down,
\* then pauses with no session open, and creates the new session after
\* the pause.
C34_TeardownPauseCreate ==
  /\ [](pc \in {"rot_pause", "rot_open"} => crawler = None)
  /\ [][TeardownStep => crawler # None /\ crawler' = None]_vars
  /\ [][SessionOpened => crawler = None /\ crawler' # None]_vars

\* _rotate_browser pauses after it closed the second session of the run
C34_Witness ==
  /\ pc = "rot_pause"
  /\ crawler = None
  /\ hist.sessions = 2

\* the records of js come from pages below the page limit of the run, each
\* page at most once and in ascending order of the pages
PagesInOrder(js) ==
  /\ \A i \in 1..Len(js) :
       /\ js[i].page >= 0
       /\ js[i].page < cfg.max_results \div 15 + 1
       /\ js[i].page < 10
  /\ \A i, j \in 1..Len(js) : i < j => js[i].page < js[j].page

\* C35: search returns at most max_results records, all of them from page
\* indices below min(max_results // 15 + 1, 10), and every fetched page
\* contributes its records at most once, in ascending order of the pages.
C35_ResultBounded ==
  /\ PagesInOrder(jobs)
  /\ pc = "done" =>
       /\ Len_jobs(result) <= cfg.max_results
       /\ PagesInOrder(result)

\* search returned the records of two pages, cut to max_results
C35_Witness ==
  /\ pc = "done"
  /\ Len(result) = 2
  /\ Len_jobs(result) = cfg.max_results
  /\ Len_jobs(jobs) > cfg.max_results

\* C36: a compensation text without any K-suffixed figure that is not
\* hourly (a weekly or yearly amount) is returned unscaled: the salary is
\* the least and the greatest of its figures as they are written.
C36_UnscaledWithoutSuffix ==
  LET text == parse.item.text
      written == {text.figures[i].value : i \in DOMAIN text.figures}
  IN /\ parse.called
     /\ TextOnly(parse.item)
     /\ text.figures # <<>>
     /\ \A i \in DOMAIN text.figures : ~text.figures[i].k
     /\ text.unit # "an hour"
     => /\ ~parse.salary.none
        /\ parse.salary.min \in written
        /\ parse.salary.max \in written

\* the delay of an unflagged call for a page from the fourth on lies in
\* [min_page_delay, max_page_delay], with or without one think time of 5 to
\* 15 seconds added (slept is in half seconds)
LaterPageDelay ==
  \E think_time \in {0} \cup (5 * 2)..(15 * 2) :
    /\ delay.slept - think_time >= 2 * delay.conf.min_page_delay
    /\ delay.slept - think_time <= 2 * delay.conf.max_page_delay

\* C37 as stated: without the detection flag the delay of page index 1 or 2
\* lies in [min_page_delay / 2, max_page_delay / 2], and the delay of a
\* page index of 3 or more in [min_page_delay, max_page_delay] plus at most
\* one think time of 5 to 15 seconds.
C37_HalfOfRange ==
  delay.calls > 0 /\ ~delay.cloudflare_detected =>
    /\ delay.page_num \in {1, 2}
         => /\ delay.slept >= delay.conf.min_page_delay
            /\ delay.slept <= delay.conf.max_page_delay
    /\ delay.page_num >= 3 => LaterPageDelay

\* C37 as amended: without the detection flag the delay of page index 1 or
\* 2 lies in [min_page_delay / 2, min_page_delay], and the delay of a page
\* index of 3 or more in [min_page_delay, max_page_delay] plus at most one
\* think time of 5 to 15 seconds.
C37_HalfToMin ==
  delay.calls > 0 /\ ~delay.cloudflare_detected =>
    /\ delay.page_num \in {1, 2}
         => /\ delay.slept >= delay.conf.min_page_delay
            /\ delay.slept <= 2 * delay.conf.min_page_delay
    /\ delay.page_num >= 3 => LaterPageDelay

\* an unflagged call for page 1 slept min_page_delay, which is more than
\* half of max_page_delay
C37_Witness ==
  /\ delay.calls > 0
  /\ ~delay.cloudflare_detected
  /\ delay.page_num = 1
  /\ delay.slept = 2 * delay.conf.min_page_delay
  /\ 2 * delay.conf.min_page_delay > delay.conf.max_page_delay

\* C38: _parse_salary returns (None, None) or a pair (min, max) with
\* min <= max, for every item, the items with pre-parsed salary_min and
\* salary_max included.
C38_MinAtMostMax ==
  parse.called => parse.salary.none \/ parse.salary.min <= parse.salary.max

\* how often the job j occurs in the list js
Occurrences(js, j) == Cardinality({i \in DOMAIN js : js[i] = j})

=========================================================================
